---------------------------- MODULE Spec2Model ----------------------------
(***************************************************************************)
(* Aperture load balancer (scales/loadbalancer/aperture.py).               *)
(*                                                                         *)
(* ApertureBalancerSink keeps two sets of endpoints, the active ones (the  *)
(* aperture, each with a node in the heap of the HeapBalancerSink base     *)
(* class) and the idle ones, resizes the aperture from an EMA of the       *)
(* number of outstanding requests, and periodically swaps one active       *)
(* endpoint for an idle one (jitter).                                      *)
(*                                                                         *)
(* The base class HeapBalancerSink (loadbalancer/heap.py) is not part of   *)
(* the sources at hand; its heap, Get, Put, AddSink, RemoveSink and node   *)
(* down handling are modelled from section 4.3 of the specification.       *)
(*                                                                         *)
(* Time is counted in ticks of Window * ln 2 seconds, so that the EMA      *)
(* weight exp(-delta / Window) is exactly 1 / 2^delta; the EMA value is    *)
(* kept as an integer number of 1/EmaScale units (floor).                  *)
(***************************************************************************)
EXTENDS Integers, Sequences, FiniteSets, TLC

\* ---------------------------------------------------------------- bounds
NumEndpoints == 3       \* endpoints the server set can push
MaxIndex == 3           \* cap of the heap's node index counter
MaxOutstanding == 3     \* cap of the Gets not yet Put back
MaxTime == 1            \* wall clock readings are 0..MaxTime ticks
MaxTrace == 6           \* operations a scenario records
MaxSwapTrace == 4       \* operations the jitter scenario records
MaxSamples == 4         \* calls of MonoClock.Sample or Ema.Update recorded

Endpoints == 1..NumEndpoints
NoEndpoint == 0         \* Python's None for an endpoint
NoTime == -1            \* Ema._time before the first Update
MinSizes == {1, 2}      \* values of sink_properties.min_size explored
JitterMins == {0, 120}  \* values of sink_properties.jitter_min_sec explored
SmoothingWindow == 5    \* the window of the balancer's Ema, in seconds

\* The load band, in halves: min_load = 0.5 and max_load = 2.0.
MinLoadHalves == 1
MaxLoadHalves == 4

\* The EMA value is stored in units of 1/EmaScale.
EmaScale == 2 ^ MaxTime

VARIABLES
  heap,         \* HeapBalancerSink._heap[1:], a sequence of nodes
  is_open,      \* is_open[e]: the channel of e's heap node is open
  counter,      \* the base's index counter for new nodes
  servers,      \* LoadBalancerSink._servers: the endpoints of the server set
  active,       \* _active_endpoints
  idle,         \* _idle_endpoints
  pending,      \* _pending_endpoints
  total,        \* _total
  ema_time,     \* _ema._time
  ema_value,    \* _ema._ema, in 1/EmaScale units
  ema_window,   \* _ema._window, in seconds
  clock,        \* _time._last
  min_size,     \* _min_size
  jitter_min,   \* _jitter_min
  scheduled,    \* number of _Jitter firings waiting in the timer queue
  jitter_pc,    \* "none", or "wait" while _Jitter is suspended in ar.wait()
  jitter_ep,    \* the endpoint the suspended _Jitter added
  jitter_exc,   \* ar.exception of the suspended _Jitter's expansion
  in_flight,    \* completed Gets minus completed Puts
  trace         \* the operations of a scenario, in order (scenarios only)

vars == <<heap, is_open, counter, servers, active, idle, pending, total,
          ema_time, ema_value, ema_window, clock, min_size, jitter_min,
          scheduled, jitter_pc, jitter_ep, jitter_exc, in_flight, trace>>

\* ------------------------------------------------------------- the heap
\* The (load, index) order of the heap.
Less(n, m) == (n.load < m.load) \/ (n.load = m.load /\ n.index < m.index)

Swap(h, i, j) == [h EXCEPT ![i] = h[j], ![j] = h[i]]

RECURSIVE FixUp(_, _)
FixUp(h, i) ==
  IF i > 1 /\ Less(h[i], h[i \div 2])
  THEN FixUp(Swap(h, i, i \div 2), i \div 2)
  ELSE h

RECURSIVE FixDown(_, _)
FixDown(h, i) ==
  LET l == 2 * i
      r == 2 * i + 1
      c == IF r <= Len(h) /\ Less(h[r], h[l]) THEN r ELSE l
  IN  IF l <= Len(h) /\ Less(h[c], h[i])
      THEN FixDown(Swap(h, i, c), c)
      ELSE h

\* Swap with the last node, drop it, and sift the moved node.
HeapRemove(h, i) ==
  LET n == Len(h)
      cut == SubSeq(Swap(h, i, n), 1, n - 1)
  IN  IF i = n THEN cut ELSE FixUp(FixDown(cut, i), i)

HeapEndpoints(h) == {h[i].endpoint : i \in 1..Len(h)}

\* The position of the node of endpoint e (0 when it has none).
PositionOf(h, e) ==
  IF e \in HeapEndpoints(h)
  THEN CHOOSE i \in 1..Len(h) : h[i].endpoint = e
  ELSE 0

PositionOfIndex(h, x) ==
  IF \E i \in 1..Len(h) : h[i].index = x
  THEN CHOOSE i \in 1..Len(h) : h[i].index = x
  ELSE 0

IsMinHeap(h) == \A i \in 2..Len(h) : ~Less(h[i], h[i \div 2])

\* ------------------------------------------------------ balancer state
\* The fields an operation of the balancer reads and writes, as a record.
State ==
  [heap |-> heap, is_open |-> is_open, counter |-> counter,
   active |-> active, idle |-> idle, pending |-> pending,
   total |-> total, ema_time |-> ema_time, ema_value |-> ema_value,
   clock |-> clock]

Becomes(st) ==
  /\ heap' = st.heap
  /\ is_open' = st.is_open
  /\ counter' = st.counter
  /\ active' = st.active
  /\ idle' = st.idle
  /\ pending' = st.pending
  /\ total' = st.total
  /\ ema_time' = st.ema_time
  /\ ema_value' = st.ema_value
  /\ clock' = st.clock

\* HeapBalancerSink._AddSink: a new node with index = ++counter, appended
\* and sifted up.  ok: the channel the factory made comes up open.
BaseAddSink(st, e, ok) ==
  LET node == [endpoint |-> e, load |-> 0, index |-> st.counter + 1]
      h == Append(st.heap, node)
  IN  [st EXCEPT !.heap = FixUp(h, Len(h)),
                 !.counter = st.counter + 1,
                 !.is_open = [st.is_open EXCEPT ![e] = ok]]

\* HeapBalancerSink._RemoveSink: no-op when the endpoint has no node.
BaseRemoveSink(st, e) ==
  LET i == PositionOf(st.heap, e)
  IN  IF i = 0 THEN st
      ELSE [st EXCEPT !.heap = HeapRemove(st.heap, i),
                      !.is_open = [st.is_open EXCEPT ![e] = FALSE]]


Min(a, b) == IF a < b THEN a ELSE b

\* ------------------------------------------------------ MonoClock, Ema
\* Variant of MonoClock.Sample that returns the wall clock as it is.
Sample_WallClock(last, now) == now

\* MonoClock.Sample, with the wall clock reading now.
Sample(last, now) == IF now - last > 0 THEN now ELSE last

\* exp(-delta / Window) in 1/EmaScale units: 1 / 2^delta with time in ticks
\* of Window * ln 2 seconds, Window being SmoothingWindow.
Weight(delta) == 2 ^ (MaxTime - delta)

\* Variant of Ema.Update that takes the window weight as 0 whatever the
\* window: the average is always the latest sample.
EmaUpdate_LatestSample(time, value, ts, sample) ==
  [time |-> ts, value |-> sample * EmaScale]

\* Ema.Update: the new (_time, _ema), the value in 1/EmaScale units.
EmaUpdate(time, value, ts, sample) ==
  IF time = NoTime
  THEN [time |-> ts, value |-> sample * EmaScale]
  ELSE LET delta == ts - time
           window == IF ema_window = 0 THEN 0 ELSE Weight(delta)
       IN  [time |-> ts,
            value |-> sample * (EmaScale - window)
                      + ((value * window) \div EmaScale)]

\* ------------------------------------------------- aperture primitives
\* The endpoints random.choice may return in _TryExpandAperture.
Choices(S) == IF S = {} THEN {NoEndpoint} ELSE S

\* The outcomes of opening the channel of an endpoint picked from S.
Outcomes(S) == IF S = {} THEN {TRUE} ELSE BOOLEAN

\* Variant of _TryExpandAperture that leaves the endpoint in the idle set.
TryExpandAperture_KeepIdle(st, e, ok) ==
  IF st.idle # {}
  THEN [st |-> BaseAddSink([st EXCEPT !.active = st.active \cup {e}], e, ok),
        endpoint |-> e,
        exception |-> ~ok]
  ELSE [st |-> st, endpoint |-> NoEndpoint, exception |-> FALSE]

\* _TryExpandAperture, with e the endpoint random.choice picks and ok the
\* outcome of opening its channel.  Returns the new state, the endpoint
\* added (NoEndpoint for None) and whether the returned AsyncResult carries
\* an exception.
TryExpandAperture(st, e, ok) ==
  IF st.idle # {}
  THEN [st |-> BaseAddSink([st EXCEPT !.idle = st.idle \ {e},
                                      !.active = st.active \cup {e}], e, ok),
        endpoint |-> e,
        exception |-> ~ok]
  ELSE [st |-> st, endpoint |-> NoEndpoint, exception |-> FALSE]

\* Variant of the scan of _ContractAperture that takes the last node whose
\* endpoint is not pending.
FirstNotPending_Last(h, pend) ==
  LET ok == {i \in 1..Len(h) : h[i].endpoint \notin pend}
  IN  IF ok = {} THEN NoEndpoint
      ELSE h[CHOOSE i \in ok : \A j \in ok : i >= j].endpoint

\* Variant of the scan of _ContractAperture that takes the first node whether
\* its endpoint is pending or not.
FirstNotPending_Any(h, pend) ==
  IF h = << >> THEN NoEndpoint ELSE h[1].endpoint

\* The first node in heap array order whose endpoint is not pending.
FirstNotPending(h, pend) ==
  LET ok == {i \in 1..Len(h) : h[i].endpoint \notin pend}
  IN  IF ok = {} THEN NoEndpoint
      ELSE h[CHOOSE i \in ok : \A j \in ok : i <= j].endpoint

\* Variant of _ContractAperture that takes the endpoint out of the active
\* set without adding it to the idle set.
ContractAperture_Forgets(st) ==
  IF Cardinality(st.active) > min_size
  THEN LET least_loaded_endpoint == FirstNotPending(st.heap, st.pending)
       IN  IF least_loaded_endpoint # NoEndpoint
           THEN BaseRemoveSink(
                  [st EXCEPT !.active = st.active \ {least_loaded_endpoint}],
                  least_loaded_endpoint)
           ELSE st
  ELSE st

\* Variant of _ContractAperture without the test against min_size.
ContractAperture_NoMinSize(st) ==
  LET least_loaded_endpoint == FirstNotPending(st.heap, st.pending)
  IN  IF least_loaded_endpoint # NoEndpoint
      THEN BaseRemoveSink(
             [st EXCEPT !.active = st.active \ {least_loaded_endpoint},
                        !.idle = st.idle \cup {least_loaded_endpoint}],
             least_loaded_endpoint)
      ELSE st

\* _ContractAperture.
ContractAperture(st) ==
  IF Cardinality(st.active) > min_size
  THEN LET least_loaded_endpoint == FirstNotPending(st.heap, st.pending)
       IN  IF least_loaded_endpoint # NoEndpoint
           THEN BaseRemoveSink(
                  [st EXCEPT !.active = st.active \ {least_loaded_endpoint},
                             !.idle = st.idle \cup {least_loaded_endpoint}],
                  least_loaded_endpoint)
           ELSE st
  ELSE st

\* _OnNodeDown, invoked by the base class for the node of endpoint d.
OnNodeDown(st, d, e, ok) ==
  IF d \in st.active
  THEN TryExpandAperture(st, e, ok).st
  ELSE st

\* aperture_load >= max_load and aperture_load <= min_load of
\* _AdjustAperture, on the EMA value avg (1/EmaScale units) and the size.
AtOrAboveMaxLoad(avg, aperture_size) ==
  IF aperture_size = 0 THEN TRUE
  ELSE 2 * avg >= MaxLoadHalves * EmaScale * aperture_size

\* Variant of the lower test of _AdjustAperture with a strict comparison.
AtOrBelowMinLoad_Strict(avg, aperture_size) ==
  IF aperture_size = 0 THEN MaxLoadHalves < MinLoadHalves
  ELSE 2 * avg < MinLoadHalves * EmaScale * aperture_size

AtOrBelowMinLoad(avg, aperture_size) ==
  IF aperture_size = 0 THEN MaxLoadHalves <= MinLoadHalves
  ELSE 2 * avg <= MinLoadHalves * EmaScale * aperture_size

\* Variant of the head of _AdjustAperture that counts every event up.
Sampled_AlwaysUp(st, amount, now) ==
  LET ts == Sample(st.clock, now)
      upd == EmaUpdate(st.ema_time, st.ema_value, ts, st.total + 1)
  IN  [st EXCEPT !.total = st.total + 1,
                 !.clock = ts,
                 !.ema_time = upd.time,
                 !.ema_value = upd.value]

\* The state after the first three lines of _AdjustAperture: the counter,
\* the clock sample and the EMA update.
Sampled(st, amount, now) ==
  LET ts == Sample(st.clock, now)
      upd == EmaUpdate(st.ema_time, st.ema_value, ts, st.total + amount)
  IN  [st EXCEPT !.total = st.total + amount,
                 !.clock = ts,
                 !.ema_time = upd.time,
                 !.ema_value = upd.value]

\* Variant of _AdjustAperture that compares the load average itself, not
\* divided by the aperture size, with the load band.
AdjustAperture_TotalLoad(st, amount, now, e, ok) ==
  LET s1 == Sampled(st, amount, now)
      avg == s1.ema_value
      aperture_size == Cardinality(s1.active)
  IN  IF AtOrAboveMaxLoad(avg, Min(aperture_size, 1)) /\ s1.idle # {}
      THEN TryExpandAperture(s1, e, ok).st
      ELSE IF AtOrBelowMinLoad(avg, Min(aperture_size, 1))
              /\ aperture_size > min_size
      THEN ContractAperture(s1)
      ELSE s1

\* _AdjustAperture(amount).
AdjustAperture(st, amount, now, e, ok) ==
  LET s1 == Sampled(st, amount, now)
      avg == s1.ema_value
      aperture_size == Cardinality(s1.active)
  IN  IF AtOrAboveMaxLoad(avg, aperture_size) /\ s1.idle # {}
      THEN TryExpandAperture(s1, e, ok).st
      ELSE IF AtOrBelowMinLoad(avg, aperture_size) /\ aperture_size > min_size
      THEN ContractAperture(s1)
      ELSE s1

\* ------------------------------------------------------- base Get / Put
OpenPositions(st) ==
  {i \in 1..Len(st.heap) : st.is_open[st.heap[i].endpoint]}

\* The node Get picks: the least (load, index) among the nodes whose
\* channel is open (a closed channel counts as infinitely loaded).
GetPosition(st) ==
  CHOOSE i \in OpenPositions(st) :
    \A j \in OpenPositions(st) : j = i \/ Less(st.heap[i], st.heap[j])

\* HeapBalancerSink Get up to the _OnGet hook: load + 1, sift down.
BaseGet(st) ==
  LET i == GetPosition(st)
      h == [st.heap EXCEPT ![i].load = @ + 1]
  IN  [st EXCEPT !.heap = FixDown(h, i)]

\* HeapBalancerSink Put up to the _OnPut hook: load - 1 and sift up when
\* the node is still in the heap, nothing otherwise.
BasePut(st, x) ==
  LET i == PositionOfIndex(st.heap, x)
  IN  IF i = 0 THEN st
      ELSE [st EXCEPT !.heap = FixUp([st.heap EXCEPT ![i].load = @ - 1], i)]

\* _OnGet and _OnPut.
OnGet(st, now, e, ok) == AdjustAperture(st, 1, now, e, ok)
OnPut(st, now, e, ok) == AdjustAperture(st, -1, now, e, ok)

\* ---------------------------------------------------------------- Init
Init ==
  /\ heap = << >>
  /\ is_open = [e \in Endpoints |-> FALSE]
  /\ counter = 0
  /\ servers = {}
  /\ active = {}
  /\ idle = {}
  /\ pending = {}
  /\ total = 0
  /\ ema_time = NoTime
  /\ ema_value = 0
  /\ ema_window = SmoothingWindow
  /\ clock = 0
  /\ min_size \in MinSizes
  /\ jitter_min \in JitterMins
  /\ scheduled = IF jitter_min > 0 THEN 1 ELSE 0
  /\ jitter_pc = "none"
  /\ jitter_ep = NoEndpoint
  /\ jitter_exc = FALSE
  /\ in_flight = 0
  /\ trace = << >>

Config == <<min_size, jitter_min, ema_window>>
JitterVars == <<scheduled, jitter_pc, jitter_ep, jitter_exc>>
RequestVars == <<in_flight>>

\* ------------------------------------------------------------- actions
\* Variant of _AddSink that counts every heap node as healthy.
AddSinkResult_CountsAll(st, endpoint, ok) ==
  LET num_healthy == Len(st.heap)
  IN  IF num_healthy < min_size
      THEN BaseAddSink([st EXCEPT !.active = st.active \cup {endpoint}],
                       endpoint, ok)
      ELSE [st EXCEPT !.idle = st.idle \cup {endpoint}]

\* _AddSink(endpoint, sink_factory), called when the server set gains an
\* endpoint it did not have.
AddSinkResult(st, endpoint, ok) ==
  LET num_healthy == Cardinality(OpenPositions(st))
  IN  IF num_healthy < min_size
      THEN BaseAddSink([st EXCEPT !.active = st.active \cup {endpoint}],
                       endpoint, ok)
      ELSE [st EXCEPT !.idle = st.idle \cup {endpoint}]

AddSink(endpoint, ok) ==
  /\ endpoint \notin servers
  /\ LET st == AddSinkResult(State, endpoint, ok)
     IN  /\ st.counter <= MaxIndex
         /\ Becomes(st)
  /\ servers' = servers \cup {endpoint}
  /\ UNCHANGED <<Config, JitterVars, RequestVars>>

\* Variant of _RemoveSink that expands without discarding the endpoint
\* from the active set.
RemoveSinkResult_KeepsActive(st, endpoint, e, ok) ==
  LET s1 == BaseRemoveSink(st, endpoint)
      s2 == IF endpoint \in s1.active
            THEN TryExpandAperture(s1, e, ok).st
            ELSE s1
  IN  IF endpoint \in s2.idle
      THEN [s2 EXCEPT !.idle = s2.idle \ {endpoint}]
      ELSE s2

\* _RemoveSink(endpoint).
RemoveSinkResult(st, endpoint, e, ok) ==
  LET s1 == BaseRemoveSink(st, endpoint)
      s2 == IF endpoint \in s1.active
            THEN TryExpandAperture(
                   [s1 EXCEPT !.active = s1.active \ {endpoint}], e, ok).st
            ELSE s1
  IN  IF endpoint \in s2.idle
      THEN [s2 EXCEPT !.idle = s2.idle \ {endpoint}]
      ELSE s2

RemoveSink(endpoint, e, ok) ==
  /\ e \in Choices(idle)
  /\ ok \in Outcomes(idle)
  /\ LET st == RemoveSinkResult(State, endpoint, e, ok)
     IN  /\ st.counter <= MaxIndex
         /\ Becomes(st)
  /\ servers' = servers \ {endpoint}
  /\ UNCHANGED <<Config, JitterVars, RequestVars>>

\* Get(): the base picks a node, then _OnGet.
GetResult(st, now, e, ok) == OnGet(BaseGet(st), now, e, ok)

Get(now, e, ok) ==
  /\ OpenPositions(State) # {}
  /\ in_flight < MaxOutstanding
  /\ e \in Choices(idle)
  /\ ok \in Outcomes(idle)
  /\ LET st == GetResult(State, now, e, ok)
     IN  /\ st.counter <= MaxIndex
         /\ Becomes(st)
  /\ in_flight' = in_flight + 1
  /\ UNCHANGED <<servers, Config, JitterVars>>

\* The requests a Get handed out and no Put returned yet whose node has
\* left the heap since.
RECURSIVE SumLoads(_)
SumLoads(h) == IF h = << >> THEN 0 ELSE Head(h).load + SumLoads(Tail(h))

Orphaned == in_flight - SumLoads(heap)

\* Node x has a request to give back: a Get returned it and no Put has
\* returned that request yet.
Outstanding(x) ==
  LET i == PositionOfIndex(heap, x)
  IN  IF i # 0 THEN heap[i].load > 0
      ELSE x <= counter /\ Orphaned > 0

\* Put(node) of a node a Get returned, x its index; then _OnPut.
PutResult(st, x, now, e, ok) == OnPut(BasePut(st, x), now, e, ok)

Put(x, now, e, ok) ==
  /\ Outstanding(x)
  /\ e \in Choices(idle)
  /\ ok \in Outcomes(idle)
  /\ LET st == PutResult(State, x, now, e, ok)
     IN  /\ st.counter <= MaxIndex
         /\ Becomes(st)
  /\ in_flight' = in_flight - 1
  /\ UNCHANGED <<servers, Config, JitterVars>>

\* The channel of a heap node closes.
ChannelClose(d) ==
  /\ d \in HeapEndpoints(heap)
  /\ is_open[d]
  /\ is_open' = [is_open EXCEPT ![d] = FALSE]
  /\ UNCHANGED <<heap, counter, servers, active, idle, pending, total,
                 ema_time, ema_value, clock, Config, JitterVars, RequestVars>>

\* The base class finds the node of d down: it removes the node from the
\* heap and invokes _OnNodeDown(node).
NodeDownResult(st, d, e, ok) == OnNodeDown(BaseRemoveSink(st, d), d, e, ok)

NodeDown(d, e, ok) ==
  /\ d \in HeapEndpoints(heap)
  /\ ~is_open[d]
  /\ e \in Choices(idle)
  /\ ok \in Outcomes(idle)
  /\ LET st == NodeDownResult(State, d, e, ok)
     IN  /\ st.counter <= MaxIndex
         /\ Becomes(st)
  /\ UNCHANGED <<servers, Config, JitterVars, RequestVars>>

\* Variant of _Jitter that schedules the next firing only after a cycle
\* that expanded.
JitterFire_NoReschedule(e, ok) ==
  /\ scheduled > 0
  /\ e \in Choices(idle)
  /\ ok \in Outcomes(idle)
  /\ LET r == TryExpandAperture(State, e, ok)
     IN  /\ r.st.counter <= MaxIndex
         /\ IF r.endpoint # NoEndpoint
            THEN /\ Becomes([r.st EXCEPT !.pending = @ \cup {r.endpoint}])
                 /\ jitter_pc' = "wait"
                 /\ jitter_ep' = r.endpoint
                 /\ jitter_exc' = r.exception
                 /\ scheduled' = scheduled - 1
            ELSE /\ Becomes(r.st)
                 /\ scheduled' = scheduled - 1
                 /\ UNCHANGED <<jitter_pc, jitter_ep, jitter_exc>>
  /\ UNCHANGED <<servers, Config, RequestVars>>

\* _Jitter up to ar.wait(): the timer fires, the aperture is expanded and
\* the new endpoint becomes pending; with nothing to add the cycle ends
\* and _ScheduleNextJitter runs.
JitterFire(e, ok) ==
  /\ scheduled > 0
  /\ e \in Choices(idle)
  /\ ok \in Outcomes(idle)
  /\ LET r == TryExpandAperture(State, e, ok)
     IN  /\ r.st.counter <= MaxIndex
         /\ IF r.endpoint # NoEndpoint
            THEN /\ Becomes([r.st EXCEPT !.pending = @ \cup {r.endpoint}])
                 /\ jitter_pc' = "wait"
                 /\ jitter_ep' = r.endpoint
                 /\ jitter_exc' = r.exception
                 /\ scheduled' = scheduled - 1
            ELSE /\ Becomes(r.st)
                 /\ scheduled' = (scheduled - 1) + 1
                 /\ UNCHANGED <<jitter_pc, jitter_ep, jitter_exc>>
  /\ UNCHANGED <<servers, Config, RequestVars>>

\* _Jitter after ar.wait(): contract unless the expansion failed, drop the
\* endpoint from pending, and _ScheduleNextJitter.
JitterResumeResult(st, endpoint, exception) ==
  LET s1 == IF ~exception THEN ContractAperture(st) ELSE st
  IN  [s1 EXCEPT !.pending = s1.pending \ {endpoint}]

JitterResume ==
  /\ jitter_pc = "wait"
  /\ Becomes(JitterResumeResult(State, jitter_ep, jitter_exc))
  /\ jitter_pc' = "none"
  /\ jitter_ep' = NoEndpoint
  /\ jitter_exc' = FALSE
  /\ scheduled' = scheduled + 1
  /\ UNCHANGED <<servers, Config, RequestVars>>

\* Where the suspended _Jitter can raise: in ar.wait() itself, or in
\* _ContractAperture once it has moved its endpoint.
Raises == {"wait", "contract"}

\* _Jitter leaving its try block on an exception raised at where: what ran
\* before the exception stays, pending.discard is skipped.
JitterRaiseResult(st, where) ==
  IF where = "contract" THEN ContractAperture(st) ELSE st

\* The exception propagates through the finally clause, which runs
\* _ScheduleNextJitter.
JitterRaise(where) ==
  /\ jitter_pc = "wait"
  /\ where = "contract" => ~jitter_exc
  /\ Becomes(JitterRaiseResult(State, where))
  /\ jitter_pc' = "none"
  /\ jitter_ep' = NoEndpoint
  /\ jitter_exc' = FALSE
  /\ scheduled' = scheduled + 1
  /\ UNCHANGED <<servers, Config, RequestVars>>

AnyEndpoint == Endpoints \cup {NoEndpoint}
Times == 0..MaxTime

Next ==
  \/ \E endpoint \in Endpoints, ok \in BOOLEAN :
       AddSink(endpoint, ok) /\ UNCHANGED trace
  \/ \E endpoint \in Endpoints, e \in AnyEndpoint, ok \in BOOLEAN :
       RemoveSink(endpoint, e, ok) /\ UNCHANGED trace
  \/ \E now \in Times, e \in AnyEndpoint, ok \in BOOLEAN :
       Get(now, e, ok) /\ UNCHANGED trace
  \/ \E x \in 1..MaxIndex, now \in Times, e \in AnyEndpoint, ok \in BOOLEAN :
       Put(x, now, e, ok) /\ UNCHANGED trace
  \/ \E d \in Endpoints : ChannelClose(d) /\ UNCHANGED trace
  \/ \E d \in Endpoints, e \in AnyEndpoint, ok \in BOOLEAN :
       NodeDown(d, e, ok) /\ UNCHANGED trace
  \/ \E e \in AnyEndpoint, ok \in BOOLEAN :
       JitterFire(e, ok) /\ UNCHANGED trace
  \/ JitterResume /\ UNCHANGED trace

Spec == Init /\ [][Next]_vars

\* The server set and the jitter timer alone, with a _Jitter whose wait or
\* contraction may raise.
NextJitter ==
  \/ \E endpoint \in Endpoints, ok \in BOOLEAN :
       AddSink(endpoint, ok) /\ UNCHANGED trace
  \/ \E endpoint \in Endpoints, e \in AnyEndpoint, ok \in BOOLEAN :
       RemoveSink(endpoint, e, ok) /\ UNCHANGED trace
  \/ \E e \in AnyEndpoint, ok \in BOOLEAN :
       JitterFire(e, ok) /\ UNCHANGED trace
  \/ JitterResume /\ UNCHANGED trace
  \/ \E where \in Raises : JitterRaise(where) /\ UNCHANGED trace

SpecJitter == Init /\ [][NextJitter]_vars

\* A suspended _Jitter leaves ar.wait() eventually, by returning or by
\* raising: the AsyncResult of the expansion completes.
JitterLeavesWait ==
  /\ JitterResume \/ \E where \in Raises : JitterRaise(where)
  /\ UNCHANGED trace

\* Endpoint 1 active, endpoints 2 and 3 idle, jitter on or off.
InitCycle ==
  /\ heap = <<[endpoint |-> 1, load |-> 0, index |-> 1]>>
  /\ is_open = [e \in Endpoints |-> e = 1]
  /\ counter = 1
  /\ servers = {1, 2, 3}
  /\ active = {1}
  /\ idle = {2, 3}
  /\ pending = {}
  /\ total = 0
  /\ ema_time = NoTime
  /\ ema_value = 0
  /\ ema_window = SmoothingWindow
  /\ clock = 0
  /\ min_size = 1
  /\ jitter_min \in JitterMins
  /\ scheduled = IF jitter_min > 0 THEN 1 ELSE 0
  /\ jitter_pc = "none"
  /\ jitter_ep = NoEndpoint
  /\ jitter_exc = FALSE
  /\ in_flight = 0
  /\ trace = << >>

FairSpecCycle == InitCycle /\ [][NextJitter]_vars /\ WF_vars(JitterLeavesWait)

TypeOK ==
  /\ active \subseteq Endpoints
  /\ idle \subseteq Endpoints
  /\ pending \subseteq Endpoints
  /\ counter \in 0..MaxIndex
  /\ IsMinHeap(heap)

\* ---------------------------------------------------------------- claims
\* C1: after every AddSink, RemoveSink, Get, Put, node down and jitter step
\* the active set and the idle set have no endpoint in common.
C1_ActiveIdleDisjoint == active \cap idle = {}

\* A jitter cycle is suspended after its expansion, with endpoints on both
\* sides of the aperture.
C1_Witness ==
  /\ jitter_pc = "wait"
  /\ Cardinality(active) >= 2
  /\ idle # {}

\* C2: the aperture is never smaller than min_size while endpoints are
\* available: |active| >= min(min_size, |active| + |idle|).
C2_ApertureAtLeastMinSize ==
  Cardinality(active) >= Min(min_size, Cardinality(active) + Cardinality(idle))

\* The aperture sits at min_size with an idle endpoint left after a resize
\* added a node beyond the first min_size ones.
C2_Witness ==
  /\ Cardinality(active) = min_size
  /\ idle # {}
  /\ counter > min_size

\* C3: the endpoints with a node in the heap are exactly the active ones.
C3_HeapIsActive == HeapEndpoints(heap) = active

\* C4: the pending set is a subset of the active set in every state.
C4_PendingSubsetActive == pending \subseteq active

\* C5: with every Put matching an earlier Get, total is the number of
\* completed Gets minus the number of completed Puts, and never negative.
C5_TotalIsGetsMinusPuts == total = in_flight /\ total >= 0

\* Requests are outstanding on a node that a membership change or a resize
\* has removed from the heap.
C5_Witness == total >= 2 /\ Orphaned >= 1

\* C6: _OnNodeDown for a node whose endpoint is active discards the endpoint
\* from active, does not put it in idle, and moves one idle endpoint, when
\* there is one, into active, so that |active| stays what it was.
C6_NodeDownDiscards ==
  [][\A d \in Endpoints, e \in AnyEndpoint, ok \in BOOLEAN :
       (NodeDown(d, e, ok) /\ d \in active)
         => /\ d \notin active'
            /\ d \notin idle'
            /\ idle # {} => /\ \E c \in idle : c \in active' /\ c \notin idle'
                            /\ Cardinality(active') = Cardinality(active)]_vars

\* ------------------------------------------------- startup (scenario 1)
\* Five endpoints join an empty balancer; channels may come up closed or
\* close later, and no request is made.
StartupEndpoints == 1..5

InitStartup ==
  /\ heap = << >>
  /\ is_open = [e \in StartupEndpoints |-> FALSE]
  /\ counter = 0
  /\ servers = {}
  /\ active = {}
  /\ idle = {}
  /\ pending = {}
  /\ total = 0
  /\ ema_time = NoTime
  /\ ema_value = 0
  /\ ema_window = SmoothingWindow
  /\ clock = 0
  /\ min_size \in MinSizes
  /\ jitter_min = 0
  /\ scheduled = 0
  /\ jitter_pc = "none"
  /\ jitter_ep = NoEndpoint
  /\ jitter_exc = FALSE
  /\ in_flight = 0
  /\ trace = << >>

NextStartup ==
  \/ \E endpoint \in StartupEndpoints, ok \in BOOLEAN :
       AddSink(endpoint, ok) /\ UNCHANGED trace
  \/ \E d \in StartupEndpoints : ChannelClose(d) /\ UNCHANGED trace

SpecStartup == InitStartup /\ [][NextStartup]_vars

\* C7: _AddSink puts the endpoint in active, with a heap node, exactly when
\* fewer than min_size heap nodes have an open channel, and in idle, with no
\* heap node, otherwise; five endpoints with open channels under min_size = 2
\* end as 2 active and 3 idle.
C7_AddSinkByOpenCount ==
  /\ [][\A endpoint \in StartupEndpoints, ok \in BOOLEAN :
          AddSink(endpoint, ok)
            => IF Cardinality({i \in 1..Len(heap) : is_open[heap[i].endpoint]})
                    < min_size
               THEN /\ endpoint \in active' /\ endpoint \notin idle'
                    /\ endpoint \in HeapEndpoints(heap')
                    /\ Len(heap') = Len(heap) + 1
               ELSE /\ endpoint \in idle' /\ endpoint \notin active'
                    /\ heap' = heap]_vars
  /\ []((/\ servers = StartupEndpoints
         /\ min_size = 2
         /\ \A i \in 1..Len(heap) : is_open[heap[i].endpoint])
          => Cardinality(active) = 2 /\ Cardinality(idle) = 3)

\* All five endpoints have joined under min_size = 2 with every channel open.
C7_Witness ==
  /\ servers = StartupEndpoints
  /\ min_size = 2
  /\ \A i \in 1..Len(heap) : is_open[heap[i].endpoint]
  /\ Cardinality(idle) = 3

\* C8: after _RemoveSink(ep), ep is neither active nor idle; if ep was
\* active and idle was not empty, exactly one idle endpoint other than ep
\* has moved into active and |active| is unchanged; if ep was not active,
\* active is unchanged.  (The steps that take ep out of servers are the
\* _RemoveSink(ep) steps; _RemoveSink of an unknown endpoint changes nothing.)
C8_RemoveSinkBackfills ==
  [][\A ep \in Endpoints :
       (ep \in servers /\ ep \notin servers')
         => /\ ep \notin active' /\ ep \notin idle'
            /\ (ep \in active /\ idle # {})
                 => /\ \E x \in idle \ {ep} :
                         /\ active' = (active \ {ep}) \cup {x}
                         /\ idle' = idle \ {x}
                    /\ Cardinality(active') = Cardinality(active)
            /\ ep \notin active => active' = active]_vars

\* A node has left the heap and another was added beyond the first min_size
\* ones, with no request and no jitter that could have done either, and no
\* down endpoint left in active: an active endpoint was removed from the
\* server set and the aperture is back at min_size, with idle endpoints left.
C8_Witness ==
  /\ counter > Len(heap)
  /\ counter > min_size
  /\ idle # {}
  /\ Cardinality(active) = min_size
  /\ HeapEndpoints(heap) = active
  /\ \A i \in 1..Len(heap) : is_open[heap[i].endpoint]
  /\ jitter_min = 0 /\ ema_time = NoTime

\* C9: one Get or Put resizes the aperture at most once: it adds one idle
\* endpoint to active, only with per-node load >= max_load, or moves one
\* active endpoint to idle, only with per-node load <= min_load and
\* |active| > min_size, or leaves both sets as they were.  (The steps that
\* change in_flight are the Get and the Put steps.)
C9_AtMostOneResize ==
  [][in_flight' # in_flight
       => LET n == Cardinality(active)
          IN  \/ active' = active /\ idle' = idle
              \/ /\ \E x \in idle : /\ active' = active \cup {x}
                                    /\ idle' = idle \ {x}
                 /\ n = 0 \/ 2 * ema_value' >= MaxLoadHalves * EmaScale * n
              \/ /\ \E y \in active : /\ active' = active \ {y}
                                      /\ idle' = idle \cup {y}
                 /\ n > min_size
                 /\ 2 * ema_value' <= MinLoadHalves * EmaScale * n]_vars

\* The load has driven the aperture of min_size = 1 to two nodes: with no
\* jitter and every channel open, only a Get or Put can have added the
\* second one.
C9_Witness ==
  /\ min_size = 1 /\ jitter_min = 0
  /\ Len(heap) = 2
  /\ \A i \in 1..Len(heap) : is_open[heap[i].endpoint]
  /\ servers = Endpoints
  /\ counter = 2
  /\ total = 3

\* -------------------------------------------- load driven (scenario 2)
\* min_size = 1, one active endpoint, three idle ones, a fresh EMA and the
\* clock at 0; Gets and Puts follow and are recorded.
LoadEndpoints == 1..4

InitLoad ==
  /\ heap = <<[endpoint |-> 1, load |-> 0, index |-> 1]>>
  /\ is_open = [e \in LoadEndpoints |-> e = 1]
  /\ counter = 1
  /\ servers = LoadEndpoints
  /\ active = {1}
  /\ idle = LoadEndpoints \ {1}
  /\ pending = {}
  /\ total = 0
  /\ ema_time = NoTime
  /\ ema_value = 0
  /\ ema_window = SmoothingWindow
  /\ clock = 0
  /\ min_size = 1
  /\ jitter_min = 0
  /\ scheduled = 0
  /\ jitter_pc = "none"
  /\ jitter_ep = NoEndpoint
  /\ jitter_exc = FALSE
  /\ in_flight = 0
  /\ trace = << >>

NextLoad ==
  \/ \E now \in Times, e \in LoadEndpoints, ok \in BOOLEAN :
       /\ Get(now, e, ok)
       /\ Len(trace) < MaxTrace
       /\ trace' = Append(trace, "Get")
  \/ \E x \in 1..MaxIndex, now \in Times, e \in LoadEndpoints, ok \in BOOLEAN :
       /\ Put(x, now, e, ok)
       /\ Len(trace) < MaxTrace
       /\ trace' = Append(trace, "Put")

SpecLoad == InitLoad /\ [][NextLoad]_vars

ThreeGetsAtOnce == trace = <<"Get", "Get", "Get">> /\ clock = 0

\* C10 as stated: three Gets at the same instant on a fresh EMA, with one
\* active and three idle endpoints, leave total = 3 and the aperture
\* expanded once, to 2 active endpoints.
C10_ThreeGetsExpand ==
  ThreeGetsAtOnce => total = 3 /\ Cardinality(active) = 2

\* C10 amended: three Gets at the same instant leave total = 3, but the EMA
\* keeps the first sample, 1.0 (delta = 0 gives weight 1), so the per-node
\* load is 1.0, no expansion happens and 1 endpoint is active.
C10_ThreeGetsKeepFirstSample ==
  ThreeGetsAtOnce
    => /\ total = 3
       /\ ema_value = EmaScale
       /\ Cardinality(active) = 1
       /\ Cardinality(idle) = 3

C10_Witness == ThreeGetsAtOnce

\* ------------------------------------------- contraction (scenario 3)
\* min_size = 1, three active endpoints with open channels, none idle or
\* pending, no load, a fresh EMA and the clock at 0; Gets and Puts follow
\* and are recorded.
InitContract ==
  /\ heap = <<[endpoint |-> 1, load |-> 0, index |-> 1],
              [endpoint |-> 2, load |-> 0, index |-> 2],
              [endpoint |-> 3, load |-> 0, index |-> 3]>>
  /\ is_open = [e \in Endpoints |-> e \in {1, 2, 3}]
  /\ counter = 3
  /\ servers = {1, 2, 3}
  /\ active = {1, 2, 3}
  /\ idle = {}
  /\ pending = {}
  /\ total = 0
  /\ ema_time = NoTime
  /\ ema_value = 0
  /\ ema_window = SmoothingWindow
  /\ clock = 0
  /\ min_size = 1
  /\ jitter_min = 0
  /\ scheduled = 0
  /\ jitter_pc = "none"
  /\ jitter_ep = NoEndpoint
  /\ jitter_exc = FALSE
  /\ in_flight = 0
  /\ trace = << >>

NextContract ==
  \/ \E now \in Times, e \in AnyEndpoint, ok \in BOOLEAN :
       /\ Get(now, e, ok)
       /\ Len(trace) < MaxTrace
       /\ trace' = Append(trace, "Get")
  \/ \E x \in 1..MaxIndex, now \in Times, e \in AnyEndpoint, ok \in BOOLEAN :
       /\ Put(x, now, e, ok)
       /\ Len(trace) < MaxTrace
       /\ trace' = Append(trace, "Put")

SpecContract == InitContract /\ [][NextContract]_vars

GetThenPutAtOnce == trace = <<"Get", "Put">> /\ clock = 0

\* C11 as stated: from three active endpoints and a fresh EMA, one Get and
\* then one Put at the same instant contract the aperture exactly once, to
\* 2 active endpoints.
C11_GetPutContractOnce ==
  GetThenPutAtOnce => Cardinality(active) = 2

\* C11 amended: the Get already contracts (EMA 1.0 over 3 endpoints is
\* 1/3 <= 0.5) and the Put contracts again (the EMA stays 1.0 at delta 0,
\* over 2 endpoints it is 0.5 <= 0.5): two contractions, 1 active endpoint
\* and 2 idle ones.
C11_GetPutContractTwice ==
  /\ (trace = <<"Get">> /\ clock = 0)
       => /\ ema_value = EmaScale
          /\ Cardinality(active) = 2
          /\ Cardinality(idle) = 1
  /\ GetThenPutAtOnce
       => /\ total = 0
          /\ ema_value = EmaScale
          /\ Cardinality(active) = 1
          /\ Cardinality(idle) = 2
          /\ HeapEndpoints(heap) = active

C11_Witness == GetThenPutAtOnce

\* ------------------------------------------------ jitter (scenario 5)
\* Endpoints 1 and 2 active with open channels, endpoint 3 idle, jitter
\* on; every operation of the balancer may follow and is recorded.
InitSwap ==
  /\ heap = <<[endpoint |-> 1, load |-> 0, index |-> 1],
              [endpoint |-> 2, load |-> 0, index |-> 2]>>
  /\ is_open = [e \in Endpoints |-> e \in {1, 2}]
  /\ counter = 2
  /\ servers = {1, 2, 3}
  /\ active = {1, 2}
  /\ idle = {3}
  /\ pending = {}
  /\ total = 0
  /\ ema_time = NoTime
  /\ ema_value = 0
  /\ ema_window = SmoothingWindow
  /\ clock = 0
  /\ min_size \in MinSizes
  /\ jitter_min = 120
  /\ scheduled = 1
  /\ jitter_pc = "none"
  /\ jitter_ep = NoEndpoint
  /\ jitter_exc = FALSE
  /\ in_flight = 0
  /\ trace = << >>

Recorded(op) == Len(trace) < MaxSwapTrace /\ trace' = Append(trace, op)

NextSwap ==
  \/ \E endpoint \in Endpoints, ok \in BOOLEAN :
       AddSink(endpoint, ok) /\ Recorded("AddSink")
  \/ \E endpoint \in Endpoints, e \in AnyEndpoint, ok \in BOOLEAN :
       RemoveSink(endpoint, e, ok) /\ Recorded("RemoveSink")
  \/ \E now \in Times, e \in AnyEndpoint, ok \in BOOLEAN :
       Get(now, e, ok) /\ Recorded("Get")
  \/ \E x \in 1..MaxIndex, now \in Times, e \in AnyEndpoint, ok \in BOOLEAN :
       Put(x, now, e, ok) /\ Recorded("Put")
  \/ \E d \in Endpoints : ChannelClose(d) /\ Recorded("ChannelClose")
  \/ \E d \in Endpoints, e \in AnyEndpoint, ok \in BOOLEAN :
       NodeDown(d, e, ok) /\ Recorded("NodeDown")
  \/ \E e \in AnyEndpoint, ok \in BOOLEAN :
       JitterFire(e, ok) /\ Recorded("JitterFire")
  \/ JitterResume /\ Recorded("JitterResume")
  \/ \E where \in Raises : JitterRaise(where) /\ Recorded("JitterRaise")

SpecSwap == InitSwap /\ [][NextSwap]_vars

\* ------------------------------------------------------ the jitter cycle
\* A step that ends a jitter cycle whose expansion succeeded and in which
\* nothing raised: _Jitter returns from ar.wait() and runs to its end.
JitterEnds ==
  /\ jitter_pc = "wait"
  /\ jitter_pc' = "none"
  /\ ~jitter_exc
  /\ jitter_ep \notin pending'

\* C12 as stated: when a jitter cycle that expanded with e ends, e is still
\* active, exactly one endpoint other than e has moved from active to idle
\* and pending is empty.
C12_JitterSwaps ==
  [][JitterEnds
       => /\ jitter_ep \in active'
          /\ \E y \in active \ {jitter_ep} :
                /\ active' = active \ {y}
                /\ idle' = idle \cup {y}
          /\ pending' = {}]_vars

\* The example of C12: the cycle expanded with endpoint 3, its channel
\* opened, and nothing ran between the expansion and the end of the cycle.
SwapAlone ==
  /\ trace = <<"JitterFire", "JitterResume">>
  /\ is_open[3]

\* From active = {1, 2} and idle = {3} an uninterrupted cycle leaves 3
\* active, one of 1 and 2 idle, the sizes as before and nothing pending.
JitterSwapsAlone ==
  SwapAlone
    => /\ 3 \in active
       /\ Cardinality(active) = 2
       /\ idle \subseteq {1, 2}
       /\ Cardinality(idle) = 1
       /\ pending = {}

\* C12 amended: when such a cycle ends, e is no longer pending and the
\* contraction has not evicted e; it has moved exactly one endpoint other
\* than e, a heap node's, from active to idle if at that moment
\* |active| > min_size and some heap node is not pending, and has moved
\* none otherwise; the uninterrupted cycle of the example swaps.
C12_JitterSwapsIfContractible ==
  /\ []JitterSwapsAlone
  /\ [][JitterEnds
          => LET e == jitter_ep
                 others == HeapEndpoints(heap) \ pending
             IN  /\ pending' = pending \ {e}
                 /\ e \in active => e \in active'
                 /\ IF Cardinality(active) > min_size /\ others # {}
                    THEN \E y \in others :
                           /\ y # e
                           /\ active' = active \ {y}
                           /\ idle' = idle \cup {y}
                    ELSE active' = active /\ idle' = idle]_vars

C12_Witness == SwapAlone /\ idle # {}

\* C13: the endpoint a jitter cycle inserted into pending is no longer in
\* pending when the cycle ends, whether the expansion succeeded or failed
\* or the wait or the contraction raised.
C13_PendingClearedOnEveryExit ==
  [][(jitter_pc = "wait" /\ jitter_pc' = "none")
       => jitter_ep \notin pending']_vars

\* The jitter cycles in flight: _Jitter calls suspended in ar.wait().
CyclesInFlight == IF jitter_pc = "wait" THEN 1 ELSE 0

\* C14: with jitter_min > 0 a firing is scheduled whenever no cycle is in
\* flight, every exit of a cycle (nothing idle, swap, failed expansion,
\* exception) leaves the next firing scheduled, and a cycle in flight is
\* always followed by a scheduled firing; with jitter_min <= 0 no firing
\* is ever scheduled and no cycle ever runs.
C14_JitterAlwaysRescheduled ==
  /\ [](jitter_min > 0 => CyclesInFlight + scheduled = 1)
  /\ [](jitter_min <= 0 => scheduled = 0 /\ jitter_pc = "none")
  /\ [][(jitter_pc = "wait" /\ jitter_pc' = "none") => scheduled' = 1]_vars
  /\ [][(scheduled = 1 /\ jitter_pc' = "none") => scheduled' = 1]_vars
  /\ (jitter_pc = "wait") ~> (scheduled = 1)

\* A cycle has ended on an exception, leaving its endpoint pending, and
\* the next firing is scheduled.
C14_Witness ==
  /\ jitter_min > 0
  /\ jitter_pc = "none"
  /\ pending # {}
  /\ scheduled = 1

\* C19: at most one jitter cycle is in flight or scheduled at any time, and
\* the pending set never holds more than one endpoint, also after cycles
\* whose wait or contraction raised.
C19_AtMostOnePending ==
  /\ CyclesInFlight + scheduled <= 1
  /\ Cardinality(pending) <= 1

\* ------------------------------------------------------------ MonoClock
\* One MonoClock on its own.  The wall clock is read in half seconds,
\* between 9.5 s and 12 s; the balancer around the clock is left empty.
WallTimes == 19..24

\* The fields of an ApertureBalancerSink nothing was done to, but for the
\* clock, the EMA and the recorded calls.
Untouched ==
  /\ heap = << >>
  /\ is_open = [e \in Endpoints |-> FALSE]
  /\ counter = 0
  /\ servers = {}
  /\ active = {}
  /\ idle = {}
  /\ pending = {}
  /\ total = 0
  /\ min_size = 1
  /\ jitter_min = 0
  /\ scheduled = 0
  /\ jitter_pc = "none"
  /\ jitter_ep = NoEndpoint
  /\ jitter_exc = FALSE
  /\ in_flight = 0

\* MonoClock(): _last is the wall clock at construction.
InitClock ==
  /\ Untouched
  /\ ema_time = NoTime
  /\ ema_value = 0
  /\ ema_window = SmoothingWindow
  /\ clock \in WallTimes
  /\ trace = << >>

\* One call of Sample() with the wall clock at now; the call is recorded
\* with _last before it and the value it returns.
ClockSample(now) ==
  /\ Len(trace) < MaxSamples
  /\ clock' = Sample(clock, now)
  /\ trace' = Append(trace, [last |-> clock, now |-> now,
                             ret |-> Sample(clock, now)])
  /\ UNCHANGED <<heap, is_open, counter, servers, active, idle, pending,
                 total, ema_time, ema_value, Config, JitterVars, RequestVars>>

NextClock == \E now \in WallTimes : ClockSample(now)

SpecClock == InitClock /\ [][NextClock]_vars

\* The wall clock reads 10, 11, 10.5, 12 on a clock built at or before 10.
ExampleSamples ==
  /\ Len(trace) = 4
  /\ [i \in 1..4 |-> trace[i].now] = <<20, 22, 21, 24>>
  /\ trace[1].last <= 20

\* C15: the values Sample() returns never decrease, a wall clock reading
\* at or below the value returned before returns that value again, and the
\* readings 10, 11, 10.5, 12 return 10, 11, 11, 12.
C15_SampleMonotonic ==
  /\ \A i, j \in 1..Len(trace) : i <= j => trace[i].ret <= trace[j].ret
  /\ \A i \in 2..Len(trace) :
       /\ trace[i].last = trace[i - 1].ret
       /\ trace[i].now <= trace[i - 1].ret => trace[i].ret = trace[i - 1].ret
  /\ ExampleSamples => [i \in 1..4 |-> trace[i].ret] = <<20, 22, 22, 24>>

C15_Witness == ExampleSamples /\ trace[1].last < 20

\* ------------------------------------------------------------------ Ema
\* One Ema on its own, of window 0 or SmoothingWindow, updated with any
\* timestamps, -1 included, and samples.
EmaWindows == {0, SmoothingWindow}
Timestamps == -1..MaxTime
Samples == 0..MaxOutstanding

\* Ema(window): _time = -1 and _ema = 0.0.
InitEma ==
  /\ Untouched
  /\ ema_time = NoTime
  /\ ema_value = 0
  /\ ema_window \in EmaWindows
  /\ clock = 0
  /\ trace = << >>

\* One call of Update(ts, sample), recorded with the (_time, _ema) it
\* found and the value it returns.  Timestamps more than MaxTime after the
\* stored one are left out (their weight is below 1/EmaScale).
EmaCall(ts, sample) ==
  /\ Len(trace) < MaxSamples
  /\ ema_time # NoTime => ts - ema_time <= MaxTime
  /\ LET upd == EmaUpdate(ema_time, ema_value, ts, sample)
     IN  /\ ema_time' = upd.time
         /\ ema_value' = upd.value
         /\ trace' = Append(trace, [time |-> ema_time, value |-> ema_value,
                                    ts |-> ts, sample |-> sample,
                                    ret |-> upd.value])
  /\ UNCHANGED <<heap, is_open, counter, servers, active, idle, pending,
                 total, clock, Config, JitterVars, RequestVars>>

NextEma == \E ts \in Timestamps, sample \in Samples : EmaCall(ts, sample)

SpecEma == InitEma /\ [][NextEma]_vars

\* The (_time, _ema) the i-th recorded call left.
StoredAfter(i) ==
  IF i = Len(trace)
  THEN [time |-> ema_time, value |-> ema_value]
  ELSE [time |-> trace[i + 1].time, value |-> trace[i + 1].value]

\* C16: the first Update(ts, x) returns x and stores (ts, x) for any ts; a
\* later call with ts equal to the stored timestamp and a window > 0
\* leaves the stored value unchanged and returns it; with window 0 every
\* call returns the latest sample.
C16_EmaUpdateCases ==
  \A i \in 1..Len(trace) :
    /\ i = 1 => /\ trace[i].ret = trace[i].sample * EmaScale
                /\ StoredAfter(i) = [time |-> trace[i].ts,
                                     value |-> trace[i].sample * EmaScale]
    /\ (i > 1 /\ ema_window > 0 /\ trace[i].ts = trace[i].time)
         => /\ StoredAfter(i).value = trace[i].value
            /\ trace[i].ret = trace[i].value
    /\ ema_window = 0 => trace[i].ret = trace[i].sample * EmaScale

\* -------------------------------------------------------- mispaired Put
\* Put(node) of a node that is not in the heap and has no request to give
\* back, x its index: the base ignores the node and _OnPut runs.
MispairedPut(x, now, e, ok) ==
  /\ PositionOfIndex(heap, x) = 0
  /\ ~Outstanding(x)
  /\ total > -MaxOutstanding
  /\ e \in Choices(idle)
  /\ ok \in Outcomes(idle)
  /\ LET st == PutResult(State, x, now, e, ok)
     IN  /\ st.counter <= MaxIndex
         /\ Becomes(st)
  /\ in_flight' = in_flight - 1
  /\ UNCHANGED <<servers, Config, JitterVars>>

\* The contraction scenario with mispaired Puts.
NextMispair ==
  \/ NextContract
  \/ \E x \in 1..MaxIndex, now \in Times, e \in AnyEndpoint, ok \in BOOLEAN :
       /\ MispairedPut(x, now, e, ok)
       /\ Len(trace) < MaxTrace
       /\ trace' = Append(trace, "MispairedPut")

SpecMispair == InitContract /\ [][NextMispair]_vars

\* C17: a Put without a matching Get still decrements total, but the value
\* of total fed to the EMA (and so to the control law) is clamped to
\* non-negative.
C17_TotalClampedAtRead ==
  [][total' < total
       => /\ total' = total - 1
          /\ LET fed == IF total' < 0 THEN 0 ELSE total'
                 upd == EmaUpdate(ema_time, ema_value, clock', fed)
             IN  ema_time' = upd.time /\ ema_value' = upd.value]_vars

\* ----------------------------------------------------- _ContractAperture
\* The balancer's fields after the step.
StateAfter ==
  [heap |-> heap', is_open |-> is_open', counter |-> counter',
   active |-> active', idle |-> idle', pending |-> pending',
   total |-> total', ema_time |-> ema_time', ema_value |-> ema_value',
   clock |-> clock']

\* r is what C18 says _ContractAperture makes of st.
ContractsAsClaimed(st, r) ==
  LET free == {i \in 1..Len(st.heap) : st.heap[i].endpoint \notin st.pending}
  IN  IF Cardinality(st.active) > min_size /\ free # {}
      THEN LET first == CHOOSE i \in free : \A j \in free : i <= j
               y == st.heap[first].endpoint
           IN  /\ r.active = st.active \ {y}
               /\ r.idle = st.idle \cup {y}
               /\ Len(r.heap) = Len(st.heap) - 1
               /\ HeapEndpoints(r.heap) = HeapEndpoints(st.heap) \ {y}
               /\ r.pending = st.pending
               /\ r.total = st.total
               /\ r.counter = st.counter
      ELSE r = st

\* C18: _ContractAperture changes something only if |active| > min_size;
\* it then moves to idle the first node in heap array order whose endpoint
\* is not pending and removes that node from the heap; with every heap node
\* pending, or no heap node, it changes nothing.  Checked of the call in
\* every reachable state and of the call a resuming _Jitter makes.
C18_ContractFirstNotPending ==
  /\ []ContractsAsClaimed(State, ContractAperture(State))
  /\ [][(jitter_pc = "wait" /\ jitter_pc' = "none" /\ ~jitter_exc
           /\ jitter_ep \notin pending')
          => ContractsAsClaimed(State,
                                [StateAfter EXCEPT !.pending = pending])]_vars

\* A single Get has contracted the aperture of the jitter scenario: one
\* endpoint and one heap node are left, the other endpoint is idle.
C18_Witness ==
  /\ trace = <<"Get">>
  /\ Cardinality(active) = 1
  /\ Len(heap) = 1
  /\ Cardinality(idle) = 2

=============================================================================
